---- MODULE Spec2Model ----
(***************************************************************************)
(* Client-side orchestration layer of the Kibali IA Store front end.       *)
(*                                                                         *)
(* Two builds of the App component ship in the repository:                 *)
(*   policy = "StrictSurface"   src/App.tsx            (errors surfaced)   *)
(*   policy = "SilentFallback"  src/unnamed/part_001   (demo data)         *)
(* The component state (useState hooks) are the variables below.  Every    *)
(* async handler is cut at its awaits: the code between two awaits runs    *)
(* to completion on the single JavaScript thread and is one action.  A     *)
(* handler suspended at an await is a record of `tasks`.                   *)
(*                                                                         *)
(* loadingMessage and activeTab are display text / tab selection that no   *)
(* handler reads; they are left out.                                       *)
(***************************************************************************)
EXTENDS Integers, Sequences, FiniteSets, TLC

\* ------------------------------------------------------------------ bounds
MaxTasks == 2      \* handler invocations suspended at an await at one time
MaxPolls == 2      \* diagnostics fetches in flight at one time
MaxFiles == 2      \* longest custom_files list a preflight check reports
MaxCount == 1      \* largest count a cleanup reports

\* ------------------------------------------------------------ value domains
Repo == {"r1", "r2"}
FileName == {"modeling.py", "config.py"}
Query == {"", "q"}
Status == {"500"}
Detail == {<<>>, <<"detail">>}          \* <<>>: no (or empty) detail field
DiagData == {"d1", "d2"}
Policy == {"StrictSurface", "SilentFallback"}
Scene == {"inventory", "discover", "inspect", "system"}

Null == <<>>                               \* null / "" / [] of the source

RECURSIVE SeqsUpTo(_, _)
SeqsUpTo(S, n) ==
    IF n = 0 THEN {<<>>}
    ELSE LET shorter == SeqsUpTo(S, n - 1)
         IN shorter \cup {Append(s, x) : s \in {t \in shorter : Len(t) = n - 1}, x \in S}

Range(s) == {s[k] : k \in 1..Len(s)}
Remove(s, k) == SubSeq(s, 1, k - 1) \o SubSeq(s, k + 1, Len(s))

SearchData == {<<"r1">>, <<"r2", "r1">>}
FileLists == SeqsUpTo(FileName, MaxFiles)
Checks == [is_standard : BOOLEAN, custom_files : FileLists]

VARIABLES
    policy,             \* which build runs
    scene,              \* which part of the screen the session uses
    poller,             \* "Idle" | "Polling" | "Stopped": the useEffect poller
    models,             \* useState<ModelInfo[]>: repo ids, in list order
    diagnostics,        \* useState<Diagnostics | null>
    searchResults,      \* useState<SearchResult[]>: result ids, in order
    searchQuery,        \* useState('')
    isLoading,          \* useState(false): the shared busy flag
    error,              \* useState<string | null>
    snippetData,        \* useState<SnippetResponse | null>
    verifyData,         \* useState<VerifyResponse | null>
    testResults,        \* useState<TestResult[] | null> (SilentFallback)
    showCleanupConfirm, \* useState(false)
    tasks,              \* invocations suspended at an await: polls first, then handlers
    srv,                \* the backend's installed models
    op,                 \* the step that ran last
    wire,               \* requests the last step put on the network
    got,                \* what the await resumed by the last step returned or threw
    gate                \* confirmation the last step asked for, and its answer

ui == <<models, diagnostics, searchResults, searchQuery, isLoading, error,
        snippetData, verifyData, testResults, showCleanupConfirm>>
vars == <<policy, scene, poller, ui, tasks, srv, op, wire, got, gate>>

Strict == policy = "StrictSurface"

NoGate == [asked |-> FALSE, by |-> "", repo |-> "", check |-> Null, msg |-> Null,
           answer |-> FALSE]

\* error notices
BackendDown == <<"Backend indisponible. Verifiez que 'main.py' est lance.">>
DemoMode == <<"Serveur Backend non detecte (Mode Demo active)">>
FailedToFetch == <<"Failed to fetch">>
Aborted == <<"The user aborted a request.">>

getMockModels == <<"meta-llama/Llama-3-8B", "stabilityai/stable-diffusion-xl-base-1.0">>
getMockDiagnostics == "mock"
NoDiag == "null"                           \* diagnostics === null

\* variant: a state update after unmount is applied
UpdAfterUnmount(old, new) == new

\* React drops a state update of an unmounted component
Upd(old, new) == IF poller = "Stopped" THEN old ELSE new

\* ---------------------------------------------------------------- apiFetch
\* the request part of apiFetch: one fetch() is issued, the caller suspends
Call(kind, arg, ep, seen) ==
    [kind |-> kind, arg |-> arg, ep |-> ep, st |-> "sent", resp |-> Null, seen |-> seen,
     late |-> FALSE]

Req(t) == [ep |-> t.ep, arg |-> t.arg]

\* the message of the Error apiFetch throws for a non-ok response
ApiErrorMessage(resp) ==
    IF Strict
    THEN IF resp.detail # Null THEN resp.detail ELSE <<"Erreur API: ", resp.status>>
    ELSE <<"API Error: ", resp.status>>

\* what the awaiting handler gets from a response that arrived
Outcome(resp) ==
    IF resp.ok THEN [ok |-> TRUE, data |-> resp.data, msg |-> Null]
    ELSE [ok |-> FALSE, data |-> Null, msg |-> ApiErrorMessage(resp)]

Failure(msg) == [ok |-> FALSE, data |-> Null, msg |-> msg]

\* ------------------------------------------------------------ bookkeeping
IsPoll(t) == t.kind = "fetchDiagnostics"
NPolls == Cardinality({k \in 1..Len(tasks) : IsPoll(tasks[k])})
NHandlers == Len(tasks) - NPolls
Room(n) == NHandlers + n <= MaxTasks
PollRoom(n) == NPolls + n <= MaxPolls

\* polls are kept in front of the handlers, each group in launch order
AddPoll(ts, t) ==
    LET n == Cardinality({k \in 1..Len(ts) : IsPoll(ts[k])})
    IN SubSeq(ts, 1, n) \o <<t>> \o SubSeq(ts, n + 1, Len(ts))

NoOutcome == [ok |-> FALSE, data |-> Null, msg |-> Null]

\* variant: the finally block leaves isLoading as it is
FinallyKeepsLoading == isLoading

\* the finally block of a handler: setIsLoading(false)
Finally == FALSE

\* a step that resumes no await
Did(name, reqs, g) == op' = name /\ wire' = reqs /\ gate' = g /\ got' = NoOutcome

\* a step that resumes an await with outcome out
Resumed(name, out, reqs, g) == op' = name /\ wire' = reqs /\ gate' = g /\ got' = out

Asked(by, repo, check, msg, answer) ==
    [asked |-> TRUE, by |-> by, repo |-> repo, check |-> check, msg |-> msg,
     answer |-> answer]

\* ------------------------------------------------------------- fetchModels
GetModels(kind, arg) == Call(kind, arg, "GET /models", Null)

\* variant: both builds clear the notice when a refresh starts
fetchModelsHeadClears == Null

\* error after the synchronous head of fetchModels (setError(null) in part_001)
fetchModelsHeadError == IF Strict THEN error ELSE Null

\* variant: the delivered head is patched into the old list
fetchModelsMerges(out) ==
    IF out.ok
    THEN IF Len(out.data) > 0 /\ Len(models) > 0
         THEN <<out.data[1]>> \o Tail(models)
         ELSE out.data
    ELSE IF Strict THEN models ELSE getMockModels

\* variant: a delivered list is dropped while another refresh is in flight
fetchModelsSingleFlight(out) ==
    IF out.ok
    THEN IF Cardinality({k \in 1..Len(tasks) : tasks[k].ep = "GET /models"}) > 1
         THEN models ELSE out.data
    ELSE IF Strict THEN models ELSE getMockModels

\* models after fetchModels' try/catch
fetchModelsModels(out) ==
    IF out.ok THEN out.data ELSE IF Strict THEN models ELSE getMockModels

\* variant: a failed refresh sets no notice
fetchModelsErrorSilent(out) == error

\* error after fetchModels' try/catch
fetchModelsError(out) ==
    IF out.ok THEN error ELSE IF Strict THEN BackendDown ELSE DemoMode

\* the refresh button
fetchModels ==
    /\ poller = "Polling" /\ Room(1) /\ scene \in {"inventory", "system"}
    /\ isLoading' = TRUE
    /\ error' = fetchModelsHeadError
    /\ tasks' = Append(tasks, GetModels("fetchModels", ""))
    /\ Did("fetchModels", <<Req(GetModels("fetchModels", ""))>>, NoGate)
    /\ UNCHANGED <<policy, scene, poller, srv, models, diagnostics, searchResults, searchQuery,
                   snippetData, verifyData, testResults, showCleanupConfirm>>

fetchModelsSettle(i, out) ==
    /\ models' = Upd(models, fetchModelsModels(out))
    /\ error' = Upd(error, fetchModelsError(out))
    /\ isLoading' = Upd(isLoading, Finally)
    /\ tasks' = Remove(tasks, i)
    /\ Resumed("fetchModelsSettle", out, <<>>, NoGate)
    /\ UNCHANGED <<diagnostics, searchResults, searchQuery, snippetData, verifyData,
                   testResults, showCleanupConfirm>>

\* ------------------------------------------------------------ handleSearch
setSearchQuery(q) ==
    /\ poller = "Polling" /\ scene = "discover" /\ q # searchQuery
    /\ searchQuery' = q
    /\ Did("setSearchQuery", <<>>, NoGate)
    /\ UNCHANGED <<policy, scene, poller, srv, tasks, models, diagnostics, searchResults,
                   isLoading, error, snippetData, verifyData, testResults,
                   showCleanupConfirm>>

SearchCall ==
    IF Strict THEN Call("handleSearch", searchQuery, "POST /models/search", Null)
    ELSE Call("handleSearch", searchQuery, "GET /search", Null)

\* variant: the empty query is sent like any other
EmptyQueryIsSent == FALSE

\* if (!searchQuery) return;
EmptyQuery == searchQuery = ""

handleSearch ==
    /\ poller = "Polling" /\ scene = "discover"
    /\ IF EmptyQuery
       THEN /\ Did("handleSearch", <<>>, NoGate)
            /\ UNCHANGED <<tasks, isLoading>>
       ELSE /\ Room(1)
            /\ isLoading' = TRUE
            /\ tasks' = Append(tasks, SearchCall)
            /\ Did("handleSearch", <<Req(SearchCall)>>, NoGate)
    /\ UNCHANGED <<policy, scene, poller, srv, models, diagnostics, searchResults, searchQuery,
                   error, snippetData, verifyData, testResults, showCleanupConfirm>>

\* `demo/${searchQuery}-model`
DemoHit(q) == IF q = "q" THEN <<"demo/q-model">> ELSE <<"demo/-model">>

\* variant: a failed search sets no notice
handleSearchErrorSwallowed(out) == error

\* error after handleSearch's try/catch: setError(err.message) in App.tsx,
\* nothing in part_001
handleSearchError(out) == IF out.ok \/ ~Strict THEN error ELSE out.msg

handleSearchSettle(i, out) ==
    /\ searchResults' = Upd(searchResults,
                            IF out.ok THEN out.data
                            ELSE IF Strict THEN searchResults ELSE DemoHit(tasks[i].arg))
    /\ error' = Upd(error, handleSearchError(out))
    /\ isLoading' = Upd(isLoading, Finally)
    /\ tasks' = Remove(tasks, i)
    /\ Resumed("handleSearchSettle", out, <<>>, NoGate)
    /\ UNCHANGED <<models, diagnostics, searchQuery, snippetData, verifyData,
                   testResults, showCleanupConfirm>>

\* ---------------------------------------------------------- handleDownload
RECURSIVE Join(_, _)
\* Array.prototype.join: the entries in order, the separator between neighbours
Join(files, sep) ==
    IF Len(files) = 0 THEN <<>>
    ELSE IF Len(files) = 1 THEN <<files[1]>>
    ELSE <<files[1], sep>> \o Join(Tail(files), sep)

\* variant: the strong warning names the first custom file only
ConfirmMsgFirstFileOnly(repoId, check) ==
    IF ~check.is_standard
    THEN <<"ATTENTION: ", repoId, " est un modele CUSTOM. Il contient des fichiers Python specifiques : ">>
         \o (IF Len(check.custom_files) = 0 THEN <<>> ELSE <<check.custom_files[1]>>)
         \o <<". Son utilisation demandera du code manuel. Continuer ?">>
    ELSE IF Len(check.custom_files) > 0
    THEN <<"Note : ", repoId, " est Standard mais contient du code custom (",
           ToString(Len(check.custom_files)),
           " fichiers). Il faudra utiliser trust_remote_code=True. Continuer ?">>
    ELSE <<"Telecharger ", repoId, " ?">>

\* variant: the note is shown from two custom files on
ConfirmMsgNoteNeedsTwo(repoId, check) ==
    IF ~check.is_standard
    THEN <<"ATTENTION: ", repoId, " est un modele CUSTOM. Il contient des fichiers Python specifiques : ">>
         \o Join(check.custom_files, ", ")
         \o <<". Son utilisation demandera du code manuel. Continuer ?">>
    ELSE IF Len(check.custom_files) > 1
    THEN <<"Note : ", repoId, " est Standard mais contient du code custom (",
           ToString(Len(check.custom_files)),
           " fichiers). Il faudra utiliser trust_remote_code=True. Continuer ?">>
    ELSE <<"Telecharger ", repoId, " ?">>

\* variant: the three branches tested in another order
ConfirmMsgStandardFirst(repoId, check) ==
    IF check.is_standard /\ Len(check.custom_files) = 0
    THEN <<"Telecharger ", repoId, " ?">>
    ELSE IF Len(check.custom_files) > 0
    THEN <<"Note : ", repoId, " est Standard mais contient du code custom (",
           ToString(Len(check.custom_files)),
           " fichiers). Il faudra utiliser trust_remote_code=True. Continuer ?">>
    ELSE <<"ATTENTION: ", repoId, " est un modele CUSTOM. Il contient des fichiers Python specifiques : ">>
         \o Join(check.custom_files, ", ")
         \o <<". Son utilisation demandera du code manuel. Continuer ?">>

ConfirmMsg(repoId, check) ==
    IF ~check.is_standard
    THEN <<"ATTENTION: ", repoId, " est un modele CUSTOM. Il contient des fichiers Python specifiques : ">>
         \o Join(check.custom_files, ", ")
         \o <<". Son utilisation demandera du code manuel. Continuer ?">>
    ELSE IF Len(check.custom_files) > 0
    THEN <<"Note : ", repoId, " est Standard mais contient du code custom (",
           ToString(Len(check.custom_files)),
           " fichiers). Il faudra utiliser trust_remote_code=True. Continuer ?">>
    ELSE <<"Telecharger ", repoId, " ?">>

\* variant: the download goes on whatever the answer
DownloadProceedsAnyway(answer) == TRUE

\* if (!confirm(confirmMsg)) { setIsLoading(false); return; }
DownloadProceeds(answer) == answer

CheckCall(repoId) == Call("handleDownload", repoId, "POST /models/check-remote", Null)
DownloadCall(repoId) == Call("handleDownload", repoId, "POST /models/download", Null)

\* the INSTALLER button of a search hit
handleDownload(repoId) ==
    /\ poller = "Polling" /\ scene = "discover" /\ Strict /\ Room(1)
    /\ repoId \in Range(searchResults)
    /\ isLoading' = TRUE
    /\ tasks' = Append(tasks, CheckCall(repoId))
    /\ Did("handleDownload", <<Req(CheckCall(repoId))>>, NoGate)
    /\ UNCHANGED <<policy, scene, poller, srv, models, diagnostics, searchResults, searchQuery,
                   error, snippetData, verifyData, testResults, showCleanupConfirm>>

\* variant: a failed preflight or download-start call sets no notice
handleDownloadErrorSwallowed(out) == error

\* error after handleDownload's catch: setError(err.message)
handleDownloadError(out) == out.msg

\* after the preflight: the confirmation, then the download-start call
handleDownloadChecked(i, out) ==
    LET repoId == tasks[i].arg IN
    /\ IF out.ok
       THEN \E answer \in BOOLEAN :
              /\ Resumed("handleDownloadChecked", out,
                     IF DownloadProceeds(answer) THEN <<Req(DownloadCall(repoId))>> ELSE <<>>,
                     Asked("handleDownload", repoId, out.data,
                           ConfirmMsg(repoId, out.data), answer))
              /\ IF DownloadProceeds(answer)
                 THEN /\ tasks' = [tasks EXCEPT ![i] = DownloadCall(repoId)]
                      /\ UNCHANGED isLoading
                 ELSE /\ tasks' = Remove(tasks, i)
                      /\ isLoading' = Upd(isLoading, Finally)
              /\ UNCHANGED error
       ELSE /\ error' = Upd(error, handleDownloadError(out))
            /\ isLoading' = Upd(isLoading, Finally)
            /\ tasks' = Remove(tasks, i)
            /\ Resumed("handleDownloadChecked", out, <<>>, NoGate)
    /\ UNCHANGED <<models, diagnostics, searchResults, searchQuery, snippetData,
                   verifyData, testResults, showCleanupConfirm>>

\* variant: the download handler awaits the refresh it starts
DownloadAwaitsRefresh == GetModels("handleDownload", "")

\* fetchModels(); without await: the call belongs to fetchModels alone
DownloadRefresh == GetModels("fetchModels", "")

\* after the download-start call: fetchModels() is started, not awaited
handleDownloadStarted(i, out) ==
    /\ IF out.ok
       THEN /\ tasks' = [tasks EXCEPT ![i] = DownloadRefresh]
            /\ error' = Upd(error, fetchModelsHeadError)
            /\ Resumed("handleDownloadStarted", out, <<Req(DownloadRefresh)>>, NoGate)
       ELSE /\ tasks' = Remove(tasks, i)
            /\ error' = Upd(error, handleDownloadError(out))
            /\ Resumed("handleDownloadStarted", out, <<>>, NoGate)
    /\ isLoading' = Upd(isLoading, Finally)
    /\ UNCHANGED <<models, diagnostics, searchResults, searchQuery, snippetData,
                   verifyData, testResults, showCleanupConfirm>>

handleDownloadSettle(i, out) ==
    IF tasks[i].ep = "POST /models/check-remote"
    THEN handleDownloadChecked(i, out)
    ELSE handleDownloadStarted(i, out)

\* ------------------------------------------- handleDelete / handleDeleteModel
DeleteCall(repoId) ==
    IF Strict THEN Call("handleDelete", repoId, "DELETE /models", Null)
    ELSE Call("handleDelete", repoId, "DELETE /models/{repo_id}", Null)

DeleteMsg(repoId) ==
    IF Strict THEN <<"Supprimer ", repoId, " ? Cette action est irreversible.">>
    ELSE <<"Voulez-vous vraiment supprimer ", repoId, " ?">>

\* variant: the delete goes on whatever the answer
DeleteProceedsAnyway(answer) == TRUE

\* if (!confirm(...)) return;
DeleteProceeds(answer) == answer

\* variant: the fallback drops the first record, whatever its id
FilterDropsFirst(list, repoId) == IF list = <<>> THEN list ELSE Tail(list)

\* prev.filter(m => m.RepoID !== repoId)
Filter(list, repoId) == SelectSeq(list, LAMBDA m : m # repoId)

\* the SUPPRIMER / RETIRER button of an installed model
handleDelete(repoId) ==
    /\ poller = "Polling" /\ scene = "inventory"
    /\ repoId \in Range(models)
    /\ \E answer \in BOOLEAN :
         /\ IF DeleteProceeds(answer)
            THEN /\ Room(1)
                 /\ isLoading' = TRUE
                 /\ tasks' = Append(tasks, DeleteCall(repoId))
            ELSE UNCHANGED <<isLoading, tasks>>
         /\ Did("handleDelete",
                IF DeleteProceeds(answer) THEN <<Req(DeleteCall(repoId))>> ELSE <<>>,
                Asked("handleDelete", repoId, Null, DeleteMsg(repoId), answer))
    /\ UNCHANGED <<policy, scene, poller, srv, models, diagnostics, searchResults, searchQuery,
                   error, snippetData, verifyData, testResults, showCleanupConfirm>>

\* after the delete call: await fetchModels(), or the catch
\* variant: a failed delete sets no notice
handleDeleteErrorSwallowed(out) == error

\* error after a failed DELETE: setError(err.message) in App.tsx, nothing in
\* part_001
handleDeleteError(out) == IF Strict THEN out.msg ELSE error

\* variant: the delete handler starts the refresh without awaiting it
DeleteRefreshNotAwaited(repoId) == GetModels("fetchModels", "")

\* await fetchModels(); the call is awaited by the delete handler
DeleteRefresh(repoId) == GetModels("handleDelete", repoId)

handleDeleteDeleted(i, out) ==
    /\ IF out.ok
       THEN /\ tasks' = [tasks EXCEPT ![i] = DeleteRefresh(tasks[i].arg)]
            /\ isLoading' = Upd(isLoading, TRUE)
            /\ error' = Upd(error, fetchModelsHeadError)
            /\ UNCHANGED models
            /\ Resumed("handleDeleteDeleted", out,
                   <<Req(DeleteRefresh(tasks[i].arg))>>, NoGate)
       ELSE /\ tasks' = Remove(tasks, i)
            /\ isLoading' = Upd(isLoading, Finally)
            /\ error' = Upd(error, handleDeleteError(out))
            /\ models' = Upd(models, IF Strict THEN models ELSE Filter(models, tasks[i].arg))
            /\ Resumed("handleDeleteDeleted", out, <<>>, NoGate)
    /\ UNCHANGED <<diagnostics, searchResults, searchQuery, snippetData, verifyData,
                   testResults, showCleanupConfirm>>

\* the awaited fetchModels() returned: both finally blocks run
handleDeleteRefreshed(i, out) ==
    /\ models' = Upd(models, fetchModelsModels(out))
    /\ error' = Upd(error, fetchModelsError(out))
    /\ isLoading' = Upd(isLoading, Finally)
    /\ tasks' = Remove(tasks, i)
    /\ Resumed("handleDeleteRefreshed", out, <<>>, NoGate)
    /\ UNCHANGED <<diagnostics, searchResults, searchQuery, snippetData, verifyData,
                   testResults, showCleanupConfirm>>

handleDeleteSettle(i, out) ==
    IF tasks[i].ep = "GET /models"
    THEN handleDeleteRefreshed(i, out)
    ELSE handleDeleteDeleted(i, out)

\* ------------------------------------------------ handleSnippet, handleVerify
SnippetCall(repoId) == Call("handleSnippet", repoId, "POST /models/snippet", Null)
VerifyCall(repoId) == Call("handleVerify", repoId, "POST /models/verify", Null)

handleSnippet(repoId) ==
    /\ poller = "Polling" /\ scene = "inspect" /\ Strict /\ Room(1)
    /\ repoId \in Range(models)
    /\ isLoading' = TRUE
    /\ tasks' = Append(tasks, SnippetCall(repoId))
    /\ Did("handleSnippet", <<Req(SnippetCall(repoId))>>, NoGate)
    /\ UNCHANGED <<policy, scene, poller, srv, models, diagnostics, searchResults, searchQuery,
                   error, snippetData, verifyData, testResults, showCleanupConfirm>>

handleSnippetSettle(i, out) ==
    /\ snippetData' = Upd(snippetData, IF out.ok THEN out.data ELSE snippetData)
    /\ error' = Upd(error, IF out.ok THEN error ELSE out.msg)
    /\ isLoading' = Upd(isLoading, Finally)
    /\ tasks' = Remove(tasks, i)
    /\ Resumed("handleSnippetSettle", out, <<>>, NoGate)
    /\ UNCHANGED <<models, diagnostics, searchResults, searchQuery, verifyData,
                   testResults, showCleanupConfirm>>

handleVerify(repoId) ==
    /\ poller = "Polling" /\ scene = "inspect" /\ Strict /\ Room(1)
    /\ repoId \in Range(models)
    /\ isLoading' = TRUE
    /\ tasks' = Append(tasks, VerifyCall(repoId))
    /\ Did("handleVerify", <<Req(VerifyCall(repoId))>>, NoGate)
    /\ UNCHANGED <<policy, scene, poller, srv, models, diagnostics, searchResults, searchQuery,
                   error, snippetData, verifyData, testResults, showCleanupConfirm>>

\* variant: a report with fonctionnel = false raises the notice
handleVerifyErrorOnBroken(out) ==
    IF out.ok
    THEN IF out.data[1].fonctionnel THEN error ELSE <<"Erreur">>
    ELSE out.msg

\* error after handleVerify's try/catch: setError only in the catch
handleVerifyError(out) == IF out.ok THEN error ELSE out.msg

handleVerifySettle(i, out) ==
    /\ verifyData' = Upd(verifyData, IF out.ok THEN out.data ELSE verifyData)
    /\ error' = Upd(error, handleVerifyError(out))
    /\ isLoading' = Upd(isLoading, Finally)
    /\ tasks' = Remove(tasks, i)
    /\ Resumed("handleVerifySettle", out, <<>>, NoGate)
    /\ UNCHANGED <<models, diagnostics, searchResults, searchQuery, snippetData,
                   testResults, showCleanupConfirm>>

\* ------------------------------------------------------------ handleCleanup
CleanupCall == Call("handleCleanup", "", "POST /system/cleanup?type=incomplete", Null)
CleanupMsg == <<"Confirmer le nettoyage ?">>

\* variant: Oui and Non can be pressed with no dialog open
CleanupAlwaysOffered == TRUE

\* {showCleanupConfirm && ( ... Non / Oui ... )}: the dialog is on screen
CleanupOffered == showCleanupConfirm

\* the Nettoyer button of the system tab (rendered once diagnostics exist)
openCleanupConfirm ==
    /\ poller = "Polling" /\ scene = "system" /\ Strict
    /\ diagnostics # NoDiag /\ ~showCleanupConfirm
    /\ showCleanupConfirm' = TRUE
    /\ Did("openCleanupConfirm", <<>>, NoGate)
    /\ UNCHANGED <<policy, scene, poller, srv, tasks, models, diagnostics, searchResults,
                   searchQuery, isLoading, error, snippetData, verifyData, testResults>>

\* the Non button of the dialog
cleanupNon ==
    /\ poller = "Polling" /\ CleanupOffered
    /\ showCleanupConfirm' = FALSE
    /\ Did("cleanupNon", <<>>, Asked("handleCleanup", "", Null, CleanupMsg, FALSE))
    /\ UNCHANGED <<policy, scene, poller, srv, tasks, models, diagnostics, searchResults,
                   searchQuery, isLoading, error, snippetData, verifyData, testResults>>

\* the Oui button of the dialog: handleCleanup(); setShowCleanupConfirm(false)
handleCleanup ==
    /\ poller = "Polling" /\ CleanupOffered /\ Room(1)
    /\ isLoading' = TRUE
    /\ tasks' = Append(tasks, CleanupCall)
    /\ showCleanupConfirm' = FALSE
    /\ Did("handleCleanup", <<Req(CleanupCall)>>,
           Asked("handleCleanup", "", Null, CleanupMsg, TRUE))
    /\ UNCHANGED <<policy, scene, poller, srv, models, diagnostics, searchResults, searchQuery,
                   error, snippetData, verifyData, testResults>>

\* variant: the list is refreshed only when something was freed
CleanupRefreshesIfFreed(out) == out.ok /\ out.data[1] > 0

\* alert(...); fetchModels(); is reached when the call returned
CleanupRefreshes(out) == out.ok

\* variant: the finally block leaves the dialog as it is
CleanupFinallyKeepsDialog == showCleanupConfirm

\* the finally block of handleCleanup: setShowCleanupConfirm(false)
CleanupFinallyDialog == FALSE

\* after the cleanup call: fetchModels() is started, not awaited
handleCleanupSettle(i, out) ==
    /\ IF CleanupRefreshes(out)
       THEN /\ tasks' = [tasks EXCEPT ![i] = GetModels("fetchModels", "")]
            /\ error' = Upd(error, fetchModelsHeadError)
            /\ Resumed("handleCleanupSettle", out, <<Req(GetModels("fetchModels", ""))>>, NoGate)
       ELSE /\ tasks' = Remove(tasks, i)
            /\ error' = Upd(error, IF out.ok THEN error ELSE out.msg)
            /\ Resumed("handleCleanupSettle", out, <<>>, NoGate)
    /\ isLoading' = Upd(isLoading, Finally)
    /\ showCleanupConfirm' = Upd(showCleanupConfirm, CleanupFinallyDialog)
    /\ UNCHANGED <<models, diagnostics, searchResults, searchQuery, snippetData,
                   verifyData, testResults>>

\* ------------------------------------------------------------ handleTestAll
TestCall == Call("handleTestAll", "", "POST /test-models", models)

handleTestAll ==
    /\ poller = "Polling" /\ scene = "inspect" /\ ~Strict /\ Room(1)
    /\ isLoading' = TRUE
    /\ tasks' = Append(tasks, TestCall)
    /\ Did("handleTestAll", <<Req(TestCall)>>, NoGate)
    /\ UNCHANGED <<policy, scene, poller, srv, models, diagnostics, searchResults, searchQuery,
                   error, snippetData, verifyData, testResults, showCleanupConfirm>>

\* the catch maps the models of the render that started the test
handleTestAllSettle(i, out) ==
    /\ testResults' = Upd(testResults,
                          IF out.ok THEN out.data ELSE <<"Demo Check">> \o tasks[i].seen)
    /\ isLoading' = Upd(isLoading, Finally)
    /\ tasks' = Remove(tasks, i)
    /\ Resumed("handleTestAllSettle", out, <<>>, NoGate)
    /\ UNCHANGED <<models, diagnostics, searchResults, searchQuery, error, snippetData,
                   verifyData, showCleanupConfirm>>

\* ------------------------------------------------ fetchDiagnostics, the poller
\* part_001's callback closes over the diagnostics of the render that made it
\* and reads only whether they were null: seen
Sees == ~Strict /\ diagnostics = NoDiag

DiagCall(seen) == Call("fetchDiagnostics", "", "GET /diagnostics", seen)

\* the useEffect body: fetchModels(); fetchDiagnostics(); setInterval(...)
Mount ==
    /\ poller = "Idle"
    /\ poller' = "Polling"
    /\ isLoading' = TRUE
    /\ error' = fetchModelsHeadError
    /\ tasks' = <<DiagCall(Sees), GetModels("fetchModels", "")>>
    /\ Did("Mount", <<Req(GetModels("fetchModels", "")), Req(DiagCall(Sees))>>, NoGate)
    /\ UNCHANGED <<policy, scene, srv, models, diagnostics, searchResults, searchQuery,
                   snippetData, verifyData, testResults, showCleanupConfirm>>

\* variant: the interval runs only once a snapshot has arrived
IntervalNeedsSnapshot == poller = "Polling" /\ diagnostics # NoDiag

\* variant: the interval outlives the cleanup
IntervalNeverCleared == poller # "Idle"

\* the interval set by the effect has not been cleared
IntervalArmed == poller = "Polling"

\* the setInterval callback
Tick ==
    /\ IntervalArmed /\ scene = "system" /\ PollRoom(1)
    /\ tasks' = AddPoll(tasks, DiagCall(Sees))
    /\ Did("Tick", <<Req(DiagCall(Sees))>>, NoGate)
    /\ UNCHANGED <<policy, scene, poller, srv, ui>>

\* the useEffect cleanup at unmount: clearInterval(interval)
Unmount ==
    /\ poller = "Polling" /\ scene = "system"
    /\ poller' = "Stopped"
    /\ Did("Unmount", <<>>, NoGate)
    /\ UNCHANGED <<policy, scene, srv, ui, tasks>>

\* does this completion call setDiagnostics
SetsDiagnostics(t, out) == out.ok \/ (~Strict /\ t.seen)

\* part_001: a new diagnostics object is a new fetchDiagnostics callback, so the
\* effect is cleaned up and run again
EffectReruns(t, out) == ~Strict /\ poller = "Polling" /\ SetsDiagnostics(t, out)

fetchDiagnosticsSettle(i, out) ==
    LET t == tasks[i]
        next == IF out.ok THEN out.data ELSE getMockDiagnostics
    IN
    /\ diagnostics' = Upd(diagnostics, IF SetsDiagnostics(t, out) THEN next ELSE diagnostics)
    /\ IF EffectReruns(t, out)
       THEN /\ Room(1)
            /\ isLoading' = TRUE
            /\ error' = fetchModelsHeadError
            /\ tasks' = Append(AddPoll(Remove(tasks, i), DiagCall(FALSE)),
                               GetModels("fetchModels", ""))
            /\ Resumed("fetchDiagnosticsSettle", out,
                   <<Req(GetModels("fetchModels", "")), Req(DiagCall(Sees))>>, NoGate)
       ELSE /\ tasks' = Remove(tasks, i)
            /\ Resumed("fetchDiagnosticsSettle", out, <<>>, NoGate)
            /\ UNCHANGED <<isLoading, error>>
    /\ UNCHANGED <<models, searchResults, searchQuery, snippetData, verifyData,
                   testResults, showCleanupConfirm>>

\* ------------------------------------------------------- closing the notices
dismissError ==
    /\ poller = "Polling" /\ error # Null
    /\ error' = Null
    /\ Did("dismissError", <<>>, NoGate)
    /\ UNCHANGED <<policy, scene, poller, srv, tasks, models, diagnostics, searchResults,
                   searchQuery, isLoading, snippetData, verifyData, testResults,
                   showCleanupConfirm>>

closeModal ==
    /\ poller = "Polling"
    /\ \/ snippetData # Null /\ snippetData' = Null /\ UNCHANGED <<verifyData, testResults>>
       \/ verifyData # Null /\ verifyData' = Null /\ UNCHANGED <<snippetData, testResults>>
       \/ testResults # Null /\ testResults' = Null /\ UNCHANGED <<snippetData, verifyData>>
    /\ Did("closeModal", <<>>, NoGate)
    /\ UNCHANGED <<policy, scene, poller, srv, tasks, models, diagnostics, searchResults,
                   searchQuery, isLoading, error, showCleanupConfirm>>

\* ------------------------------------------------------------- the backend
\* requests that read or change the installed models
OnStore(t) == t.ep \in {"GET /models", "DELETE /models", "DELETE /models/{repo_id}"}

\* the installed models after the request is served
Served(t) == IF t.ep = "GET /models" THEN srv ELSE Filter(srv, t.arg)

\* the backend serves a request on the installed models; the answer to
\* GET /models is the list installed at that moment
Serve(i) ==
    /\ i <= Len(tasks)
    /\ tasks[i].st = "sent" /\ OnStore(tasks[i])
    /\ tasks' = [tasks EXCEPT ![i].st = "served",
                              ![i].resp = IF tasks[i].ep = "GET /models" THEN srv ELSE Null]
    /\ srv' = Served(tasks[i])
    /\ Did("Serve", <<>>, NoGate)
    /\ UNCHANGED <<policy, scene, poller, ui>>

\* bodies a 2xx answer can carry, by endpoint
Answers(t) ==
    CASE t.ep = "GET /models" -> {t.resp}
      [] t.ep = "GET /diagnostics" -> DiagData
      [] t.ep \in {"POST /models/search", "GET /search"} -> SearchData
      [] t.ep = "POST /models/check-remote" -> Checks
      [] t.ep = "POST /models/snippet" -> {<<"code">>}
      [] t.ep = "POST /models/verify" -> {<<[fonctionnel |-> b]>> : b \in BOOLEAN}
      [] t.ep = "POST /system/cleanup?type=incomplete" -> {<<c>> : c \in 0..MaxCount}
      [] t.ep = "POST /test-models" -> {<<"Tested">>}
      [] OTHER -> {Null}

\* bodies an error answer can carry
Errors == [ok : {FALSE}, data : {Null}, status : Status, detail : Detail]

\* ------------------------------------------------- the awaits are resumed
Settle(i, out) ==
    CASE tasks[i].kind = "fetchModels" -> fetchModelsSettle(i, out)
      [] tasks[i].kind = "fetchDiagnostics" -> fetchDiagnosticsSettle(i, out)
      [] tasks[i].kind = "handleSearch" -> handleSearchSettle(i, out)
      [] tasks[i].kind = "handleDownload" -> handleDownloadSettle(i, out)
      [] tasks[i].kind = "handleDelete" -> handleDeleteSettle(i, out)
      [] tasks[i].kind = "handleSnippet" -> handleSnippetSettle(i, out)
      [] tasks[i].kind = "handleVerify" -> handleVerifySettle(i, out)
      [] tasks[i].kind = "handleCleanup" -> handleCleanupSettle(i, out)
      [] tasks[i].kind = "handleTestAll" -> handleTestAllSettle(i, out)

\* the response arrived: res.ok is tested and the body decoded
Arrive(i) ==
    /\ i <= Len(tasks)
    /\ \/ /\ OnStore(tasks[i]) => tasks[i].st = "served"
          /\ \E data \in Answers(tasks[i]) :
                Settle(i, Outcome([ok |-> TRUE, data |-> data, status |-> "200",
                                   detail |-> Null]))
       \/ /\ tasks[i].st = "sent"
          /\ \E resp \in Errors : Settle(i, Outcome(resp))
    /\ UNCHANGED <<policy, scene, poller, srv>>

\* fetch() rejects: no connection, or the connection is lost
NetFail(i) ==
    /\ i <= Len(tasks)
    /\ Settle(i, Failure(FailedToFetch))
    /\ UNCHANGED <<policy, scene, poller, srv>>

\* part_001: controller.abort() fires before the response headers arrived
Timeout(i) ==
    /\ i <= Len(tasks) /\ ~Strict
    /\ Settle(i, Failure(Aborted))
    /\ UNCHANGED <<policy, scene, poller, srv>>

\* ------------------------------------------------------------ specification
Init ==
    /\ policy \in Policy
    /\ scene \in Scene
    /\ poller = "Idle"
    /\ models = Null /\ diagnostics = NoDiag /\ searchResults = Null
    /\ searchQuery = "" /\ isLoading = FALSE /\ error = Null
    /\ snippetData = Null /\ verifyData = Null /\ testResults = Null
    /\ showCleanupConfirm = FALSE
    /\ tasks = <<>>
    /\ srv = <<"r1", "r2">>
    /\ op = "Init" /\ wire = <<>> /\ got = NoOutcome /\ gate = NoGate

Slots == 1..(MaxTasks + MaxPolls)
Listed == Repo \cup Range(getMockModels)

Next ==
    \/ Mount \/ Tick \/ Unmount
    \/ fetchModels
    \/ \E q \in Query : setSearchQuery(q)
    \/ handleSearch
    \/ \E r \in Repo : handleDownload(r)
    \/ \E r \in Listed : handleDelete(r)
    \/ \E r \in Repo : handleSnippet(r)
    \/ \E r \in Repo : handleVerify(r)
    \/ openCleanupConfirm \/ cleanupNon \/ handleCleanup
    \/ handleTestAll
    \/ dismissError \/ closeModal
    \/ \E i \in Slots : Serve(i)
    \/ \E i \in Slots : Arrive(i)
    \/ \E i \in Slots : NetFail(i)
    \/ \E i \in Slots : Timeout(i)

Spec == Init /\ [][Next]_vars

\* The abort timer of part_001 is a browser timer: once armed it fires, so the
\* oldest pending poll and the oldest pending handler call are not left
\* pending for ever there.  App.tsx arms no timer, and no fetch is owed an
\* answer: the backend may stay silent for ever.
FairSpec ==
    /\ Spec
    /\ WF_vars(Timeout(1))
    /\ WF_vars(Timeout(NPolls + 1))

\* -------------------------------------------------- apiFetch, step by step
\* The steps of one apiFetch call told apart: the response headers arrive
\* (fetch() resolves), the body is read (res.json() resolves), the transport
\* fails, the time budget of the call runs out.  st is "ok" / "bad" once the
\* headers of a 2xx / non-2xx response are in; late says the budget is over.

\* part_001: the abort timer is armed until the headers are in (clearTimeout)
TimerArmed(t) == ~Strict /\ t.st \notin {"ok", "bad"}

\* the budget of call i runs out; part_001's timer, if still armed, aborts it
Elapse(i) ==
    /\ i <= Len(tasks) /\ ~tasks[i].late
    /\ IF TimerArmed(tasks[i])
       THEN Settle(i, Failure(Aborted))
       ELSE /\ tasks' = [tasks EXCEPT ![i].late = TRUE]
            /\ Did("Elapse", <<>>, NoGate)
            /\ UNCHANGED ui
    /\ UNCHANGED <<policy, scene, poller, srv>>

\* fetch() resolves with the response; part_001 throws at once if !res.ok,
\* App.tsx first reads the error body
Headers(i) ==
    /\ i <= Len(tasks) /\ tasks[i].st \in {"sent", "served"}
    /\ \/ /\ OnStore(tasks[i]) => tasks[i].st = "served"
          /\ tasks' = [tasks EXCEPT ![i].st = "ok"]
          /\ Did("Headers", <<>>, NoGate)
          /\ UNCHANGED ui
       \/ /\ tasks[i].st = "sent"
          /\ IF Strict
             THEN /\ tasks' = [tasks EXCEPT ![i].st = "bad"]
                  /\ Did("Headers", <<>>, NoGate)
                  /\ UNCHANGED ui
             ELSE \E resp \in Errors : Settle(i, Outcome(resp))
    /\ UNCHANGED <<policy, scene, poller, srv>>

\* res.json() resolves: the body of the answer, or of the error in App.tsx
Body(i) ==
    /\ i <= Len(tasks) /\ tasks[i].st \in {"ok", "bad"}
    /\ IF tasks[i].st = "ok"
       THEN \E data \in Answers(tasks[i]) :
               Settle(i, Outcome([ok |-> TRUE, data |-> data, status |-> "200",
                                  detail |-> Null]))
       ELSE \E resp \in Errors : Settle(i, Outcome(resp))
    /\ UNCHANGED <<policy, scene, poller, srv>>

\* the transport fails: fetch() or res.json() rejects with a TypeError; the
\* error body of App.tsx is read under .catch and is covered by Body
Drop(i) ==
    /\ i <= Len(tasks) /\ tasks[i].st # "bad"
    /\ Settle(i, Failure(FailedToFetch))
    /\ UNCHANGED <<policy, scene, poller, srv>>

\* a session on the model cards (snippet, test) with these steps
GateInit == Init /\ scene = "inspect"

GateNext ==
    \/ Mount
    \/ \E r \in Repo : handleSnippet(r)
    \/ handleTestAll
    \/ dismissError \/ closeModal
    \/ \E i \in Slots : Serve(i)
    \/ \E i \in Slots : Headers(i)
    \/ \E i \in Slots : Body(i)
    \/ \E i \in Slots : Drop(i)
    \/ \E i \in Slots : Elapse(i)

GateSpec == GateInit /\ [][GateNext]_vars

\* A session on the system tab, where the poller's ticks are followed: the
\* handlers of the other tabs are not started.
PollInit == Init /\ scene = "system"

PollNext ==
    \/ Mount \/ Tick \/ Unmount
    \/ fetchModels
    \/ openCleanupConfirm \/ cleanupNon \/ handleCleanup
    \/ dismissError
    \/ \E i \in Slots : Serve(i)
    \/ \E i \in Slots : Arrive(i)
    \/ \E i \in Slots : NetFail(i)
    \/ \E i \in Slots : Timeout(i)

\* the oldest pending diagnostics fetch settles, with an answer or a failure
PollSettles ==
    /\ Len(tasks) > 0 /\ IsPoll(tasks[1])
    /\ Arrive(1) \/ NetFail(1) \/ Timeout(1)

\* setInterval keeps calling its callback while it is not cleared; every
\* diagnostics fetch is answered or fails; part_001's abort timer fires.
PollSpec ==
    /\ PollInit /\ [][PollNext]_vars
    /\ WF_vars(Tick)
    /\ SF_vars(PollSettles)
    /\ WF_vars(Timeout(NPolls + 1))

\* ======================================================================
\* Properties.  op, wire, got and gate describe the step that led to the
\* current state: the handler that ran, the requests it handed to apiFetch,
\* the outcome it resumed with and the confirmation it asked.
\* ======================================================================

\* the requests to endpoint ep issued by the last step
Issued(ep) == SelectSeq(wire, LAMBDA r : r.ep = ep)

\* the file names a confirmation message spells out
Names(msg) == SelectSeq(msg, LAMBDA tok : tok \in FileName)

\* the last step asked the download confirmation
DownloadAsked == gate.asked /\ gate.by = "handleDownload"

\* ------------------------------------------------------------------ C1
\* C1: in every state of the mounted component in which no handler (refresh,
\* search, download, delete, snippet, verify, cleanup, test) is in progress,
\* isLoading is false: every handler clears it on success, on failure and on
\* the early return after a declined confirmation.
C1_IdleNotBusy ==
    (poller = "Polling" /\ NHandlers = 0) => ~isLoading

\* C1 witness: a download was declined at the confirmation, nothing else runs
C1_Witness ==
    /\ poller = "Polling" /\ NHandlers = 0 /\ ~isLoading
    /\ op = "handleDownloadChecked" /\ DownloadAsked /\ ~gate.answer

\* ------------------------------------------------------------------ C2
\* C2: whenever the mounted component is busy it is eventually not busy, for
\* every backend behaviour including a backend that never answers.
C2_BusyEventuallyClears ==
    (poller = "Polling" /\ isLoading) ~> (poller = "Stopped" \/ ~isLoading)

\* ------------------------------------------------------------------ C3
\* C3: a step issues POST /models/download exactly once when it resumed the
\* download handler with a successful preflight and the user accepted the
\* confirmation, and zero times otherwise; the confirmation itself is asked
\* only on a successful preflight.
C3_DownloadGated ==
    /\ Len(Issued("POST /models/download")) =
           IF DownloadAsked /\ gate.answer THEN 1 ELSE 0
    /\ DownloadAsked => (op = "handleDownloadChecked" /\ got.ok)
    /\ \A k \in 1..Len(tasks) :
           tasks[k].ep = "POST /models/download" => tasks[k].kind = "handleDownload"

\* C3 witness: preflight succeeded, the user accepted, one download-start left
C3_Witness ==
    /\ DownloadAsked /\ gate.answer /\ got.ok
    /\ wire = <<[ep |-> "POST /models/download", arg |-> gate.repo]>>

\* ------------------------------------------------------------------ C4
\* C4: when the preflight says is_standard = false, the confirmation shown is
\* the strong warning and the file names it spells out are exactly
\* custom_files of that preflight, in order.
C4_StrongWarningListsFiles ==
    (DownloadAsked /\ ~gate.check.is_standard) =>
        /\ gate.check = got.data
        /\ gate.msg[1] = "ATTENTION: "
        /\ Names(gate.msg) = gate.check.custom_files

\* C4 witness: a non-standard model with two custom files was confirmed
C4_Witness ==
    /\ DownloadAsked /\ ~gate.check.is_standard
    /\ gate.check.custom_files = <<"modeling.py", "config.py">>
    /\ Names(gate.msg) = <<"modeling.py", "config.py">>

\* ------------------------------------------------------------------ C5
\* C5 as written: when is_standard = true and custom_files is non-empty the
\* confirmation is the informational note and it spells out the custom files.
C5_NoteListsFiles ==
    (DownloadAsked /\ gate.check.is_standard /\ gate.check.custom_files # <<>>) =>
        /\ gate.msg[1] = "Note : "
        /\ Names(gate.msg) = gate.check.custom_files

\* C5 amended: when is_standard = true and custom_files is non-empty the
\* confirmation is the informational note; it says trust_remote_code is
\* needed and gives the number of custom files, and spells out none of them.
C5_NoteCountsFiles ==
    (DownloadAsked /\ gate.check.is_standard /\ gate.check.custom_files # <<>>) =>
        /\ gate.msg[1] = "Note : "
        /\ gate.msg[4] = ToString(Len(gate.check.custom_files))
        /\ gate.msg[5] = " fichiers). Il faudra utiliser trust_remote_code=True. Continuer ?"
        /\ Names(gate.msg) = <<>>

\* C5 witness: a standard model with one custom file was confirmed
C5_Witness ==
    /\ DownloadAsked /\ gate.check.is_standard
    /\ gate.check.custom_files = <<"modeling.py">>
    /\ gate.msg[1] = "Note : "

\* ------------------------------------------------------------------ C6
\* C6: every preflight result gets exactly one of the three confirmations:
\* the strong warning iff not standard, the note iff standard with custom
\* files, the plain confirmation iff standard without custom files.
C6_ThreeCases ==
    DownloadAsked =>
        /\ Cardinality({h \in {"ATTENTION: ", "Note : ", "Telecharger "} :
                           gate.msg[1] = h}) = 1
        /\ (gate.msg[1] = "ATTENTION: ") <=> ~gate.check.is_standard
        /\ (gate.msg[1] = "Note : ") <=>
               (gate.check.is_standard /\ gate.check.custom_files # <<>>)
        /\ (gate.msg[1] = "Telecharger ") <=>
               (gate.check.is_standard /\ gate.check.custom_files = <<>>)

\* C6 witness: a standard model without custom files got the plain question
C6_Witness ==
    /\ DownloadAsked /\ gate.check.is_standard /\ gate.check.custom_files = <<>>
    /\ gate.msg = <<"Telecharger ", gate.repo, " ?">>

\* ------------------------------------------------------------------ C7
\* C7: a step in which the delete confirmation is declined issues no request
\* and leaves models, isLoading, error and the calls in flight unchanged; a
\* step issues a delete request only with an accepted delete confirmation.
C7_DeclinedDeleteIsNoOp ==
    [][ /\ (gate'.asked /\ gate'.by = "handleDelete" /\ ~gate'.answer) =>
               (wire' = <<>> /\ UNCHANGED <<models, isLoading, error, tasks>>)
        /\ (\E k \in 1..Len(wire') : wire'[k].ep \in {"DELETE /models", "DELETE /models/{repo_id}"}) =>
               (gate'.asked /\ gate'.by = "handleDelete" /\ gate'.answer)
      ]_vars

\* C7 witness: the delete confirmation was declined while a listing was shown
C7_Witness ==
    /\ gate.asked /\ gate.by = "handleDelete" /\ ~gate.answer
    /\ gate.repo \in Range(models) /\ wire = <<>> /\ NHandlers = 0 /\ ~isLoading

\* ------------------------------------------------------------------ C8
\* C8: a step issues POST /system/cleanup?type=incomplete only if the cleanup dialog was open
\* before it and was answered Oui in it; a step that answers Non issues none.
C8_CleanupGated ==
    [][ /\ (\E k \in 1..Len(wire') : wire'[k].ep = "POST /system/cleanup?type=incomplete") =>
               /\ showCleanupConfirm
               /\ gate'.asked /\ gate'.by = "handleCleanup" /\ gate'.answer
               /\ Len(wire') = 1
        /\ (gate'.asked /\ gate'.by = "handleCleanup" /\ ~gate'.answer) =>
               (wire' = <<>> /\ UNCHANGED tasks)
      ]_vars

\* C8 witness: the dialog was answered Oui and the cleanup request left
C8_Witness ==
    /\ gate.asked /\ gate.by = "handleCleanup" /\ gate.answer
    /\ wire = <<[ep |-> "POST /system/cleanup?type=incomplete", arg |-> ""]>>

C10_RefreshReplacesWhole ==
    [][ \/ models' = models
        \/ /\ op' \in {"fetchModelsSettle", "handleDeleteRefreshed"}
           /\ IF got'.ok THEN models' = got'.data
              ELSE ~Strict /\ models' = getMockModels
        \/ /\ op' = "handleDeleteDeleted" /\ ~Strict /\ ~got'.ok
           /\ \E r \in Range(models) : models' = Filter(models, r)
      ]_vars

\* C10 witness: the refresh after a delete replaced a two-entry list by the
\* one-entry list the backend delivered
C10_Witness ==
    /\ op = "handleDeleteRefreshed" /\ got.ok
    /\ got.data = <<"r2">> /\ models = <<"r2">>

\* ----------------------------------------------------------------- C11
\* C11: a step of the mounted component that completes a refresh whose
\* GET /models failed sets the degraded-mode notice and leaves models as the
\* build prescribes: App.tsx keeps the previous list unchanged, part_001
\* adopts exactly the mock list.
C11_FailedRefreshPolicy ==
    [][ (poller = "Polling" /\ op' \in {"fetchModelsSettle", "handleDeleteRefreshed"}
         /\ ~got'.ok) =>
            IF Strict THEN models' = models /\ error' = BackendDown
            ELSE models' = getMockModels /\ error' = DemoMode
      ]_vars

\* C11 witness: under App.tsx a refresh failed while a non-empty list was held
C11_Witness ==
    /\ Strict /\ poller = "Polling" /\ op = "fetchModelsSettle" /\ ~got.ok
    /\ models # <<>> /\ error = BackendDown

\* ----------------------------------------------------------------- C12
\* C12: a search started with the empty query issues no request and leaves
\* the search results and the calls in flight unchanged.
C12_EmptySearchIsNoOp ==
    [][ (op' = "handleSearch" /\ searchQuery = "") =>
            (wire' = <<>> /\ UNCHANGED <<searchResults, tasks, isLoading, error>>)
      ]_vars

\* C12 witness: the empty query was searched while earlier results were shown
C12_Witness ==
    /\ op = "handleSearch" /\ searchQuery = "" /\ wire = <<>>
    /\ searchResults # <<>>

\* ----------------------------------------------------------------- C13
\* C13 as written: a step of the mounted component that completes a failed
\* search sets the error notice to the failure's message.
C13_FailedSearchSurfaced ==
    [][ (poller = "Polling" /\ op' = "handleSearchSettle" /\ ~got'.ok) =>
            (error' = got'.msg /\ error' # Null)
      ]_vars

\* C13 amended: a step of the mounted component that completes a failed search
\* sets, under App.tsx, the error notice to the failure's message and keeps
\* the results; under part_001 it leaves the notice as it was and shows the
\* single demo result made from the query.
C13_FailedSearchByPolicy ==
    [][ (poller = "Polling" /\ op' = "handleSearchSettle" /\ ~got'.ok) =>
            IF Strict
            THEN error' = got'.msg /\ error' # Null /\ searchResults' = searchResults
            ELSE error' = error /\ \E q \in Query \ {""} : searchResults' = DemoHit(q)
      ]_vars

\* C13 witness: under App.tsx a search failed and its message is the notice
C13_Witness ==
    /\ Strict /\ poller = "Polling" /\ op = "handleSearchSettle" /\ ~got.ok
    /\ error = got.msg /\ error # Null

\* ----------------------------------------------------------------- C15
\* C15: a step of the mounted component that completes a failed diagnostics
\* fetch leaves the error notice and isLoading exactly as they were.
C15_PollFailureIsSilent ==
    [][ (poller = "Polling" /\ op' = "fetchDiagnosticsSettle" /\ ~got'.ok) =>
            UNCHANGED <<error, isLoading>>
      ]_vars

\* ----------------------------------------------------------------- C16
\* C16: a step writes the mock diagnostics only over the null snapshot, so a
\* snapshot the backend delivered is never replaced by the mock one.
C16_PlaceholderOnlyOverNull ==
    [][ (diagnostics' = getMockDiagnostics /\ diagnostics # getMockDiagnostics) =>
            diagnostics = NoDiag
      ]_vars

\* ----------------------------------------------------------------- C17
\* C17: once the poller is stopped no step issues GET /diagnostics and no
\* diagnostics fetch is added to the calls in flight.
C17_NoFetchAfterStop ==
    [][ poller' = "Stopped" =>
            /\ \A k \in 1..Len(wire') : wire'[k].ep # "GET /diagnostics"
            /\ NPolls' <= NPolls
      ]_vars

\* C17 witness: the poller was stopped, later steps happened and every call
\* in flight has settled, none of them a new diagnostics fetch
C17_Witness ==
    /\ poller = "Stopped" /\ op # "Unmount" /\ tasks = <<>>

C20_FailedDeleteSurfaced ==
    [][ (Strict /\ poller = "Polling" /\ op' = "handleDeleteDeleted" /\ ~got'.ok) =>
            /\ error' = got'.msg /\ error' # Null
            /\ models' = models
            /\ wire' = <<>>
      ]_vars

\* C20 witness: under App.tsx a delete failed, the notice shows its message
\* and the list still holds the model
C20_Witness ==
    /\ Strict /\ poller = "Polling" /\ op = "handleDeleteDeleted" /\ ~got.ok
    /\ error = got.msg /\ models # <<>>

\* ----------------------------------------------------------------- C14
\* C14: while the poller is not stopped, whatever number of diagnostics
\* fetches have failed, a GET /diagnostics is issued again and again.
C14_PollerKeepsTicking ==
    []<>(poller # "Polling" \/ \E k \in 1..Len(wire) : wire[k].ep = "GET /diagnostics")

\* C14 witness: under App.tsx the mount fetch has failed (no snapshot, nothing
\* else pending) and the interval issued the next fetch
C14_Witness ==
    /\ Strict /\ poller = "Polling" /\ op = "Tick"
    /\ diagnostics = NoDiag /\ NPolls = 1
    /\ wire = <<[ep |-> "GET /diagnostics", arg |-> ""]>>

\* ----------------------------------------------------------------- C19
\* C19: a call that resolves after its time budget has run out, or because it
\* ran out, resolves to the abort error (Timeout) and to nothing else; a call
\* whose transport fails within the budget resolves to the fetch error
\* (Unreachable), which is not the abort error.
C19_TimeoutNotUnreachable ==
    [][ \A i \in Slots :
          i <= Len(tasks) =>
            /\ (got' # NoOutcome /\ tasks[i].late /\ (Headers(i) \/ Body(i) \/ Drop(i))) =>
                   (~got'.ok /\ got'.msg = Aborted)
            /\ (got' # NoOutcome /\ Elapse(i)) =>
                   (~got'.ok /\ got'.msg = Aborted)
            /\ (~tasks[i].late /\ Drop(i)) =>
                   (~got'.ok /\ got'.msg = FailedToFetch /\ got'.msg # Aborted)
      ]_vars

\* ----------------------------------------------------------------- C21
\* C21: under part_001 a step of the mounted component that resumes a delete
\* whose DELETE failed leaves in models exactly the previous records whose id
\* is not the deleted one, in their previous order, and issues no request.
C21_FailedDeleteFiltersLocally ==
    [][ (~Strict /\ poller = "Polling" /\ op' = "handleDeleteDeleted" /\ ~got'.ok) =>
            \E i \in Slots :
               /\ i <= Len(tasks) /\ tasks' = Remove(tasks, i)
               /\ tasks[i].ep = "DELETE /models/{repo_id}"
               /\ models' = SelectSeq(models, LAMBDA m : m # tasks[i].arg)
               /\ wire' = <<>>
      ]_vars

\* C21 witness: under part_001 the delete of the first of two listed models
\* failed; the second is what is left and nothing is in flight
C21_Witness ==
    /\ ~Strict /\ poller = "Polling" /\ op = "handleDeleteDeleted" /\ ~got.ok
    /\ models = <<"r2">> /\ srv = <<"r1", "r2">> /\ wire = <<>> /\ tasks = <<>>

\* ----------------------------------------------------------------- C22
\* C22: a step of the mounted component that resumes a download whose
\* download-start call was acknowledged ends the download handler: isLoading
\* is false after it, one download handler fewer is waiting, and the refresh
\* it started is still in flight, awaited by no download handler.
C22_DownloadReturnsOnAck ==
    [][ (Strict /\ poller = "Polling" /\ op' = "handleDownloadStarted" /\ got'.ok) =>
            /\ isLoading' = FALSE
            /\ Len(SelectSeq(tasks', LAMBDA t : t.kind = "handleDownload")) =
                   Len(SelectSeq(tasks, LAMBDA t : t.kind = "handleDownload")) - 1
            /\ wire' = <<[ep |-> "GET /models", arg |-> ""]>>
            /\ \E k \in 1..Len(tasks') :
                   tasks'[k].ep = "GET /models" /\ tasks'[k].st = "sent"
      ]_vars

\* C22 witness: the download-start call was acknowledged, isLoading is false
\* and the refresh is the only call in flight, not yet answered
C22_Witness ==
    /\ Strict /\ poller = "Polling" /\ op = "handleDownloadStarted" /\ got.ok
    /\ ~isLoading /\ NHandlers = 1
    /\ \E k \in 1..Len(tasks) :
           tasks[k].kind = "fetchModels" /\ tasks[k].st = "sent"

\* ----------------------------------------------------------------- C23
\* C23: a step of the mounted component that resumes a delete whose DELETE
\* succeeded issues exactly one GET /models and leaves isLoading true with the
\* delete handler still waiting; a delete handler ends only in the step that
\* completes that refresh or in the step that sees its DELETE fail, and the
\* step that completes the refresh issues no further request.
C23_DeleteAwaitsOneRefresh ==
    [][ LET Waiting(ts) == Len(SelectSeq(ts, LAMBDA t : t.kind = "handleDelete")) IN
        /\ (poller = "Polling" /\ op' = "handleDeleteDeleted" /\ got'.ok) =>
               /\ Len(wire') = 1 /\ wire'[1].ep = "GET /models"
               /\ isLoading' = TRUE
               /\ Waiting(tasks') = Waiting(tasks)
               /\ \E k \in 1..Len(tasks') :
                      /\ tasks'[k].kind = "handleDelete"
                      /\ tasks'[k].ep = "GET /models" /\ tasks'[k].st = "sent"
        /\ Waiting(tasks') < Waiting(tasks) =>
               \/ op' = "handleDeleteRefreshed" /\ wire' = <<>>
               \/ op' = "handleDeleteDeleted" /\ ~got'.ok
        /\ op' = "handleDeleteRefreshed" =>
               \E i \in Slots :
                  /\ i <= Len(tasks) /\ tasks' = Remove(tasks, i)
                  /\ tasks[i].kind = "handleDelete" /\ tasks[i].ep = "GET /models"
      ]_vars

\* C23 witness: the DELETE was acknowledged, isLoading is true and the one
\* refresh the delete handler waits for is in flight
C23_Witness ==
    /\ poller = "Polling" /\ op = "handleDeleteDeleted" /\ got.ok
    /\ isLoading /\ Len(wire) = 1 /\ wire[1].ep = "GET /models"
    /\ NHandlers = 1 /\ \E k \in 1..Len(tasks) :
           tasks[k].kind = "handleDelete" /\ tasks[k].ep = "GET /models"

\* ----------------------------------------------------------------- C24
\* C24: the mount issues exactly one GET /diagnostics; every other
\* GET /diagnostics is issued by a tick of the interval; a step that completes
\* a diagnostics fetch, with data or with a failure, issues no request.
C24_OnlyTicksFetchAgain ==
    [][ LET Polls == SelectSeq(wire', LAMBDA r : r.ep = "GET /diagnostics") IN
        /\ op' = "Mount" => Len(Polls) = 1
        /\ Polls # <<>> => op' \in {"Mount", "Tick"}
        /\ op' = "fetchDiagnosticsSettle" => wire' = <<>>
      ]_vars

\* ----------------------------------------------------------------- C25
\* C25: a tick of the interval and a step that completes a diagnostics fetch
\* leave models, searchResults, isLoading and error unchanged and issue no
\* GET /models; diagnostics is changed by no step other than the completion of
\* a diagnostics fetch.
C25_PollerIndependent ==
    [][ /\ op' \in {"Tick", "fetchDiagnosticsSettle"} =>
               /\ UNCHANGED <<models, searchResults, isLoading, error>>
               /\ \A k \in 1..Len(wire') : wire'[k].ep # "GET /models"
        /\ diagnostics' # diagnostics => op' = "fetchDiagnosticsSettle"
      ]_vars

\* ----------------------------------------------------------------- C26
\* C26: a step of the mounted component that completes a refresh with a
\* delivered list stores that list, and one that completes a search with
\* delivered hits stores those hits, whatever other refresh or search is still
\* in flight and whichever was issued first: the completion that comes last
\* is the one whose result stays.
C26_LastCompletionWins ==
    [][ /\ (poller = "Polling" /\ got'.ok
            /\ op' \in {"fetchModelsSettle", "handleDeleteRefreshed"}) =>
               models' = got'.data
        /\ (poller = "Polling" /\ got'.ok /\ op' = "handleSearchSettle") =>
               searchResults' = got'.data
      ]_vars

\* C26 witness: two refreshes overlap; the one answered after the delete has
\* completed and its list is stored, while the one answered before the delete
\* is still to complete with the older list
C26_Witness ==
    /\ poller = "Polling" /\ got.ok
    /\ op \in {"fetchModelsSettle", "handleDeleteRefreshed"}
    /\ got.data = <<"r2">> /\ models = <<"r2">>
    /\ \E k \in 1..Len(tasks) :
           /\ tasks[k].ep = "GET /models" /\ tasks[k].st = "served"
           /\ tasks[k].resp = <<"r1", "r2">>

\* ----------------------------------------------------------------- C27
\* C27: when a call is answered with a non-2xx status, the failure its handler
\* resumes with carries the detail of the answer if there is one, and
\* otherwise a phrase made from the status.
C27_ErrorCarriesDetail ==
    [][ \A i \in Slots : \A resp \in Errors :
          (i <= Len(tasks) /\ tasks[i].st = "sent" /\ Settle(i, Outcome(resp))) =>
              /\ ~got'.ok
              /\ got'.msg = IF resp.detail # Null THEN resp.detail
                            ELSE IF Strict THEN <<"Erreur API: ", resp.status>>
                            ELSE <<"API Error: ", resp.status>>
      ]_vars

\* ----------------------------------------------------------------- C28
\* C28: every request a step issues is the one request of one new call in
\* flight, and a step that resumes a handler with a failed call issues no
\* request.
C28_NoRetry ==
    [][ /\ Len(tasks') = Len(tasks) + Len(wire') - (IF got' # NoOutcome THEN 1 ELSE 0)
        /\ (got' # NoOutcome /\ ~got'.ok) => wire' = <<>>
      ]_vars

\* ----------------------------------------------------------------- C29
\* C29: a step of the mounted component that completes a verify whose call
\* delivered a report with fonctionnel = false stores exactly that report in
\* verifyData and leaves the error notice as it was.
C29_NonFunctionalIsNormal ==
    [][ (poller = "Polling" /\ op' = "handleVerifySettle" /\ got'.ok
         /\ ~got'.data[1].fonctionnel) =>
            /\ verifyData' = got'.data
            /\ error' = error
      ]_vars

\* C29 witness: a verify delivered fonctionnel = false; the report is shown
\* and no notice is set
C29_Witness ==
    /\ poller = "Polling" /\ op = "handleVerifySettle" /\ got.ok
    /\ verifyData = <<[fonctionnel |-> FALSE]>> /\ error = Null

\* ----------------------------------------------------------------- C30
\* C30: a step of the mounted component that resumes a download whose
\* preflight call failed asks no confirmation, issues no request, sets the
\* error notice to the failure's message, leaves models unchanged and ends
\* the download handler.
C30_FailedPreflightStops ==
    [][ (poller = "Polling" /\ op' = "handleDownloadChecked" /\ ~got'.ok) =>
            /\ gate' = NoGate
            /\ wire' = <<>>
            /\ error' = got'.msg /\ error' # Null
            /\ models' = models
            /\ \E i \in Slots :
                  /\ i <= Len(tasks) /\ tasks' = Remove(tasks, i)
                  /\ tasks[i].ep = "POST /models/check-remote"
      ]_vars

\* C30 witness: the preflight failed; its message is the notice, nothing was
\* asked, nothing is in flight and no download handler is left
C30_Witness ==
    /\ poller = "Polling" /\ op = "handleDownloadChecked" /\ ~got.ok
    /\ error = got.msg /\ error # Null /\ ~gate.asked /\ wire = <<>>
    /\ NHandlers = 0

\* ----------------------------------------------------------------- C31
\* C31: while the component is mounted and a call of fetchModels or of a
\* handler is in flight, isLoading is true.
C31_BusyWhileInFlight ==
    (poller = "Polling" /\ NHandlers > 0) => isLoading

\* ----------------------------------------------------------------- C32
\* C32: when the refresh awaited by a delete has just completed with a
\* delivered list (so the DELETE was acknowledged) and the next step leaves no
\* call of fetchModels or of a handler in flight, models after that step does
\* not contain the deleted model; stated for the model r that is the only one
\* the backend no longer holds, which is then the one that delete removed.
C32_DeletedStaysGone ==
    [][ (poller = "Polling" /\ op = "handleDeleteRefreshed" /\ got.ok
         /\ NHandlers' = 0) =>
            \A r \in Repo :
                Range(srv) = Repo \ {r} => r \notin Range(models')
      ]_vars

\* ----------------------------------------------------------------- C33
\* C33: under App.tsx a notice that is set becomes null only in the step that
\* dismisses it, is replaced only by the message of a call that failed in
\* that step, and is left as it is by every step that completes a call
\* successfully.
C33_NoticeOnlyDismissed ==
    [][ (Strict /\ error # Null) =>
            /\ error' = Null => op' = "dismissError"
            /\ error' # error =>
                   \/ op' = "dismissError"
                   \/ got' # NoOutcome /\ ~got'.ok /\ error' # Null
            /\ got'.ok => error' = error
      ]_vars

\* C33 witness: under App.tsx a refresh failed, a later refresh delivered
\* the list, and the degraded-mode notice is still shown over the current
\* inventory
C33_Witness ==
    /\ Strict /\ poller = "Polling" /\ op = "fetchModelsSettle" /\ got.ok
    /\ error = BackendDown /\ models = got.data /\ models = srv /\ models # <<>>
    /\ NHandlers = 0

\* ----------------------------------------------------------------- C34
\* C34: a step of the mounted component that resumes a cleanup whose call
\* failed sets the error notice to the failure's message, issues no request
\* and leaves isLoading false and the cleanup dialog closed; the dialog is
\* closed after Non, after Oui and after every completion of the cleanup call.
C34_FailedCleanupSurfaced ==
    [][ /\ (poller = "Polling" /\ op' = "handleCleanupSettle" /\ ~got'.ok) =>
               /\ error' = got'.msg /\ error' # Null
               /\ wire' = <<>>
               /\ isLoading' = FALSE
               /\ showCleanupConfirm' = FALSE
        /\ (poller = "Polling"
            /\ op' \in {"cleanupNon", "handleCleanup", "handleCleanupSettle"}) =>
               showCleanupConfirm' = FALSE
      ]_vars

\* C34 witness: a confirmed cleanup's call failed; its message is the notice,
\* isLoading is false, the dialog is closed and nothing is in flight
C34_Witness ==
    /\ poller = "Polling" /\ op = "handleCleanupSettle" /\ ~got.ok
    /\ error = got.msg /\ error # Null /\ ~isLoading /\ ~showCleanupConfirm
    /\ wire = <<>> /\ NHandlers = 0

====
